---- MODULE Spec2Model ----
(***************************************************************************)
(* Model of serenity-ai-frontend:                                          *)
(*   - src/src/app/api/journal/route.ts : generateTags, GET and POST       *)
(*     /journal                                                            *)
(*   - src/unnamed/part_000 (1..270)    : the Telegram webhook route       *)
(*   - src/unnamed/part_000 (272..790)  : the chat client                  *)
(*                                                                         *)
(* The specifications share the module's variables:                        *)
(*   TagSpec      generateTags' text clean-up and JSON.parse, as a pure    *)
(*                function applied to every bounded model response text;   *)
(*   Spec         the POST /journal handler, one step per await, with the  *)
(*                journal-processing service and its webhook callback;     *)
(*   TelegramSpec the Telegram webhook handler, one step per await;        *)
(*   TruncateSpec sendTelegramMessage's cut, applied to every text length; *)
(*   JournalGetSpec  Spec with GET /journal requests beside it;            *)
(*   StreamSpec   the chat client reading a streamed response;             *)
(*   SpeechSpec   the chat client speaking an answer;                      *)
(*   DispatchFairSpec  the outbound enrichment call, event by event.       *)
(***************************************************************************)
EXTENDS Integers, Sequences, FiniteSets, TLC

VARIABLES
    \* ---- generateTags (TagSpec) ----
    modelText,      \* response.text() of the completion call, a token sequence
    tagsResult,     \* the value generateTags returned
    tagPc,          \* "call" before the clean-up/parse, "returned" after
    \* ---- POST /journal (Spec) ----
    journals,       \* rows of the journals table, in insertion order (index = id)
    flaskLog,       \* outbound requests to the journal-processing service
    reqNo,          \* number of POST /journal requests received so far
    pc,             \* position of the POST handler in flight
    session,        \* session?.user.id of the request in flight
    aiCall,         \* outcome of model.generateContent: "none", "threw", "text"
    tags,           \* const tags of the request in flight
    insertResult,   \* outcome of the insert: "none", "ok", "error"
    journal,        \* const journal: the row returned by insert().select().single()
    resp,           \* the HTTP response of the request in flight
    \* ---- Telegram webhook (TelegramSpec) ----
    envToken,       \* process.env.TELEGRAM_BOT_TOKEN is set
    envKey,         \* process.env.GEMINI_API_KEY is set
    telegram_messages, \* rows of the telegram_messages table, oldest first
    tgNo,           \* number of webhook requests received so far
    tgPc,           \* position of the webhook handler in flight
    tgUpdate,       \* the update of the request in flight
    tgStatus,       \* HTTP status answered to Telegram, 0 while in flight
    tgUser,         \* outcome of the telegram_users lookup: "none", "error", "norow", "row"
    tgHistory,      \* const chatHistory
    tgCtx,          \* const entries, activities, userContextItems: "none" before the
                    \* fetch returned, then "data" or "empty"
    tgAi,           \* const aiResponse
    tgReply,        \* the text handed to sendTelegramMessage
    tgSends,        \* outbound sendMessage requests of the request in flight
    tgTrace,        \* calls made by the request in flight, in order
    tgDbBefore,     \* telegram_messages when the request in flight arrived
    \* ---- sendTelegramMessage on every text (TruncateSpec) ----
    tnText,         \* the argument text
    tnSent,         \* the text in the body of the first sendMessage request
    tnPc,           \* "call" before the first request is built, "sent" after
    \* ---- GET /journal (JournalGetSpec) ----
    getResp,        \* the response of the GET request in flight, with its session
    \* ---- chat client, reading the streamed response (StreamSpec) ----
    stEvents,       \* the texts of the data: events the server sent, in order
    stPos,          \* number of tokens of the body the reader has delivered
    assistantMessage, \* let assistantMessage of handleSubmit
    stShown,        \* content of the last entry of messages
    stPc,           \* "reading" inside the while loop, "ended" after it
    \* ---- chat client, voice responses (SpeechSpec) ----
    speechSynthesis,        \* window.speechSynthesis exists
    isVoiceResponseEnabled, \* the state of the same name
    voiceProvider,          \* the state of the same name
    isPlayingRef,           \* isPlayingRef.current
    currentAudioRef,        \* currentAudioRef.current: "null", "loaded", "playing"
    utterance,              \* an utterance is being spoken by speechSynthesis
    spoken,                 \* what was actually spoken: engine and text, in order
    spNo,                   \* number of speakText calls so far
    spText,                 \* the text of the speakText call in flight
    spPc,                   \* position of speakTextPolly: "idle", "send", "convert", "play", "done"
    spFailedAt,             \* the step at which the Polly path of this call failed, or "none"
    \* ---- the outbound enrichment call of POST /journal (DispatchFairSpec) ----
    dsPc,           \* the handler: "await" at `await makeRequest`, "resumed", "returned"
    dsPromise,      \* makeRequest: "pending", "resolved", "rejected"
    dsOutcome,      \* how makeRequest settled: "none" or one of DispatchOutcomes
    dsStatus,       \* res.statusCode, 0 before the response arrived
    dsData,         \* chunks appended to data, counted up to MaxChunks
    dsEnded,        \* res emitted 'end'
    dsIdle,         \* ticks without activity on the socket
    dsDestroyed,    \* req.destroy() was called
    dsErrored,      \* req emitted 'error'
    \* ---- chat client, message list and chat list (ChatSpec, DeleteSpec) ----
    messages,       \* the state of the same name: a sequence of [role, content]
    chats,          \* the state of the same name: chat ids, most recent first
    currentChatId,  \* the state of the same name, "null" for null
    isDeleting,     \* the state of the same name
    isDeleteDialogOpen, \* the state of the same name
    hsPc,           \* handleSubmit: "idle", "fetch", "reading", "done"
    hsChatId,       \* currentChatId as the running handleSubmit closure sees it
    hsBefore,       \* messages when handleSubmit was called
    hsAssistant,    \* let assistantMessage of the running handleSubmit
    hsFailed,       \* the running handleSubmit went through its catch
    reloads,        \* fetchChatMessages requests in flight
    chatFetches,    \* fetchUserChats requests in flight
    srvStored,      \* messages the server has persisted for this exchange
    delPc,          \* deleteChat: "idle", "await", then "returned", "deleted" or "failed"
    delChatId,      \* currentChatId as the running deleteChat closure sees it
    delChats,       \* chats as the running deleteChat closure sees it
    delMessages     \* messages when deleteChat was called

tagVars == <<modelText, tagsResult, tagPc>>
journalVars == <<journals, flaskLog, reqNo, pc, session, aiCall, tags,
                 insertResult, journal, resp>>
telegramVars == <<envToken, envKey, telegram_messages, tgNo, tgPc, tgUpdate,
                  tgStatus, tgUser, tgHistory, tgCtx, tgAi, tgReply, tgSends, tgTrace,
                  tgDbBefore>>
truncVars == <<tnText, tnSent, tnPc>>
getVars == <<getResp>>
streamVars == <<stEvents, stPos, assistantMessage, stShown, stPc>>
speechVars == <<speechSynthesis, isVoiceResponseEnabled, voiceProvider, isPlayingRef,
                currentAudioRef, utterance, spoken, spNo, spText, spPc, spFailedAt>>
dispatchVars == <<dsPc, dsPromise, dsOutcome, dsStatus, dsData, dsEnded, dsIdle,
                  dsDestroyed, dsErrored>>
chatVars == <<messages, chats, currentChatId, isDeleting, isDeleteDialogOpen, hsPc,
              hsChatId, hsBefore, hsAssistant, hsFailed, reloads, chatFetches, srvStored,
              delPc, delChatId, delChats, delMessages>>
vars == <<tagVars, journalVars, telegramVars, truncVars, getVars, streamVars, speechVars,
          dispatchVars, chatVars>>

(***************************************************************************)
(* Bounds                                                                  *)
(***************************************************************************)
MaxTextLen == 4     \* longest model response text, in tokens
MaxReqs == 2        \* POST /journal requests handled in one behaviour
MaxUpdates == 3     \* Telegram webhook requests handled in one behaviour
MaxChars == 4003    \* longest text handed to sendTelegramMessage, in characters
MaxEvents == 3      \* data: events in one streamed chat response
MaxSpeaks == 2      \* speakText calls in one behaviour
MaxChunks == 2      \* chunks of the enrichment response that are counted
IdleTicks == 2      \* ticks of socket inactivity that make up the 10 s of req.setTimeout
MaxChats == 2       \* chats in the chat list when deleteChat is called

(***************************************************************************)
(* generateTags: text clean-up and JSON.parse (route.ts 45-57)             *)
(*                                                                         *)
(* A text is a sequence of tokens, each standing for the characters named: *)
(*   "F" ``` | "J" json | "NL" newline | "SP" space | "LB" [ | "RB" ] |      *)
(*   "COMMA" , | "STR" a string literal "a" | "NUM" the digit 1 |          *)
(*   "NULL" null | "OBJ" an object literal {"a":1} | "X" the letter x      *)
(***************************************************************************)
Tokens == {"F", "J", "NL", "SP", "LB", "RB", "COMMA", "STR", "NUM", "NULL", "OBJ", "X"}
Whitespace == {"NL", "SP"}

TextsOfLen(n) == [1..n -> Tokens]

Texts == UNION {TextsOfLen(n) : n \in 0..MaxTextLen}

\* JSON values, all of one shape so that any two can be compared
JString == [kind |-> "string", items |-> <<>>]
JNumber == [kind |-> "number", items |-> <<>>]
JNull == [kind |-> "null", items |-> <<>>]
JObject == [kind |-> "object", items |-> <<>>]
JArray(elems) == [kind |-> "array", items |-> elems]
EmptyList == JArray(<<>>)

DropFrom(t, n) == SubSeq(t, n, Len(t))

\* text.replace(/```json\n?/g, '')
RECURSIVE StripJsonFence(_)
StripJsonFence(t) ==
    IF t = <<>> THEN <<>>
    ELSE IF Len(t) >= 2 /\ t[1] = "F" /\ t[2] = "J"
         THEN IF Len(t) >= 3 /\ t[3] = "NL"
              THEN StripJsonFence(DropFrom(t, 4))
              ELSE StripJsonFence(DropFrom(t, 3))
         ELSE <<Head(t)>> \o StripJsonFence(Tail(t))

\* .replace(/```\n?/g, '')
RECURSIVE StripFence(_)
StripFence(t) ==
    IF t = <<>> THEN <<>>
    ELSE IF t[1] = "F"
         THEN IF Len(t) >= 2 /\ t[2] = "NL"
              THEN StripFence(DropFrom(t, 3))
              ELSE StripFence(DropFrom(t, 2))
         ELSE <<Head(t)>> \o StripFence(Tail(t))

RECURSIVE SkipWs(_)
SkipWs(t) ==
    IF t # <<>> /\ Head(t) \in Whitespace THEN SkipWs(Tail(t)) ELSE t

RECURSIVE DropTrailingWs(_)
DropTrailingWs(t) ==
    IF t # <<>> /\ t[Len(t)] \in Whitespace
    THEN DropTrailingWs(SubSeq(t, 1, Len(t) - 1))
    ELSE t

\* .trim()
Trim(t) == DropTrailingWs(SkipWs(t))

RECURSIVE SkipDigits(_)
SkipDigits(t) ==
    IF t # <<>> /\ Head(t) = "NUM" THEN SkipDigits(Tail(t)) ELSE t

ParseFail == [ok |-> FALSE, val |-> JNull, rest |-> <<>>]
ParseOk(v, r) == [ok |-> TRUE, val |-> v, rest |-> r]

\* The JSON grammar over the tokens: whitespace is allowed around every
\* value and separator, a number is a run of adjacent digits.
RECURSIVE ParseValue(_), ParseElems(_, _)
ParseValue(t) ==
    LET u == SkipWs(t) IN
    IF u = <<>> THEN ParseFail
    ELSE CASE Head(u) = "STR" -> ParseOk(JString, Tail(u))
           [] Head(u) = "NUM" -> ParseOk(JNumber, SkipDigits(u))
           [] Head(u) = "NULL" -> ParseOk(JNull, Tail(u))
           [] Head(u) = "OBJ" -> ParseOk(JObject, Tail(u))
           [] Head(u) = "LB" ->
                LET v == SkipWs(Tail(u)) IN
                IF v # <<>> /\ Head(v) = "RB"
                THEN ParseOk(EmptyList, Tail(v))
                ELSE ParseElems(Tail(u), <<>>)
           [] OTHER -> ParseFail

ParseElems(t, acc) ==
    LET r == ParseValue(t) IN
    IF ~r.ok THEN ParseFail
    ELSE LET w == SkipWs(r.rest) IN
         IF w = <<>> THEN ParseFail
         ELSE CASE Head(w) = "COMMA" -> ParseElems(Tail(w), Append(acc, r.val))
                [] Head(w) = "RB" -> ParseOk(JArray(Append(acc, r.val)), Tail(w))
                [] OTHER -> ParseFail

\* JSON.parse: ok = FALSE stands for the SyntaxError it throws
JSONParse(t) ==
    LET r == ParseValue(t) IN
    IF r.ok /\ SkipWs(r.rest) = <<>> THEN r ELSE ParseFail

cleanJson(text) == Trim(StripFence(StripJsonFence(text)))

\* try { return JSON.parse(cleanJson) } catch { return [] }
generateTags(text) ==
    LET r == JSONParse(cleanJson(text)) IN
    IF r.ok THEN r.val ELSE EmptyList

IsListOfStrings(v) ==
    /\ v.kind = "array"
    /\ \A i \in 1..Len(v.items) : v.items[i].kind = "string"

(***************************************************************************)
(* TagSpec: generateTags applied to every model response text              *)
(***************************************************************************)
NoResult == [kind |-> "none", items |-> <<>>]

TagInit ==
    /\ modelText \in Texts
    /\ tagsResult = NoResult
    /\ tagPc = "call"

GenerateTagsReturn ==
    /\ tagPc = "call"
    /\ tagsResult' = generateTags(modelText)
    /\ tagPc' = "returned"
    /\ UNCHANGED modelText

(***************************************************************************)
(* POST /journal (route.ts 109-258)                                        *)
(*                                                                         *)
(* The deployment is taken to be configured: NEXT_PUBLIC_FLASK_API_URL is  *)
(* a URL that new URL() accepts (route.ts 180).  The location field of the *)
(* body is carried through unchanged and is left out.                      *)
(***************************************************************************)
Users == {"u1", "u2"}
\* session?.user.id: a user id, or undefined when requireAuth gave no session
Sessions == Users \cup {"undefined"}

\* Texts the completion call answers with in Spec
JournalTexts == {<<"LB", "STR", "COMMA", "STR", "RB">>,
                 <<"F", "J", "NL", "LB", "STR", "RB", "NL", "F">>,
                 <<"X", "SP", "X">>}

DispatchOutcomes == {"ok200", "non200", "neterr", "timeout"}

NoJournal == [id |-> 0, user_id |-> "none", tags |-> NoResult,
              is_processing |-> FALSE, summary |-> "null", mood_tags |-> "null",
              keywords |-> "null", created_at |-> 0]

NoResp == [status |-> 0, body |-> "none", journal |-> NoJournal,
           statusField |-> "none", error |-> "none"]

\* NextResponse.json({ error }, { status: 500 })
ErrorResp(msg) == [status |-> 500, body |-> "error", journal |-> NoJournal,
                   statusField |-> "none", error |-> msg]

\* NextResponse.json({ ...journal, status: 'processing', message })
JournalResp(j) == [status |-> 200, body |-> "journal", journal |-> j,
                   statusField |-> "processing", error |-> "none"]

\* initialJournalData (route.ts 130-138), as stored: id is the row number,
\* created_at the arrival number of the request, enrichment columns null
initialJournalData(id) ==
    [id |-> id, user_id |-> session, tags |-> tags, is_processing |-> TRUE,
     summary |-> "null", mood_tags |-> "null", keywords |-> "null",
     created_at |-> reqNo]

\* the outbound request of the request in flight, if it was sent
MyDispatches == {i \in 1..Len(flaskLog) : flaskLog[i].req = reqNo}

JournalInit ==
    /\ journals = <<>>
    /\ flaskLog = <<>>
    /\ reqNo = 0
    /\ pc = "idle"
    /\ session = "undefined"
    /\ aiCall = "none"
    /\ tags = NoResult
    /\ insertResult = "none"
    /\ journal = NoJournal
    /\ resp = NoResp

\* route.ts 110-122: requireAuth, request.json(), content.length.
\* A body that is not JSON or has no content throws into the outer catch.
PostStart(s, bodyOk) ==
    /\ pc \in {"idle", "done"}
    /\ reqNo < MaxReqs
    /\ reqNo' = reqNo + 1
    /\ session' = s
    /\ aiCall' = "none"
    /\ tags' = NoResult
    /\ insertResult' = "none"
    /\ journal' = NoJournal
    /\ IF bodyOk
       THEN pc' = "tags" /\ resp' = NoResp
       ELSE pc' = "done" /\ resp' = ErrorResp("Failed to create journal")
    /\ UNCHANGED <<journals, flaskLog>>

\* route.ts 126 with 38-58: await generateTags(content).  The completion
\* call (41-43) is outside generateTags' try: when it throws, the exception
\* leaves generateTags and lands in POST's outer catch (251-256).
PostGenerateTags(threw, text) ==
    /\ pc = "tags"
    /\ IF threw
       THEN /\ aiCall' = "threw"
            /\ tags' = tags
            /\ pc' = "done"
            /\ resp' = ErrorResp("Failed to create journal")
       ELSE /\ aiCall' = "text"
            /\ tags' = generateTags(text)
            /\ pc' = "insert"
            /\ resp' = resp
    /\ UNCHANGED <<journals, flaskLog, reqNo, session, insertResult, journal>>

\* PostInsert without the return of route.ts 148-154: an insert error is
\* logged and the handler goes on to the dispatch
PostInsert_NoReturn(failed) ==
    /\ pc = "insert"
    /\ IF failed
       THEN /\ insertResult' = "error"
            /\ UNCHANGED <<journals, journal>>
       ELSE /\ insertResult' = "ok"
            /\ journals' = Append(journals, initialJournalData(Len(journals) + 1))
            /\ journal' = initialJournalData(Len(journals) + 1)
    /\ pc' = "dispatch"
    /\ UNCHANGED <<flaskLog, reqNo, session, aiCall, tags, resp>>

\* route.ts 141-156: insert([initialJournalData]).select().single()
PostInsert(failed) ==
    /\ pc = "insert"
    /\ IF failed
       THEN /\ insertResult' = "error"
            /\ resp' = ErrorResp("insertError.message")
            /\ pc' = "done"
            /\ UNCHANGED <<journals, journal>>
       ELSE /\ insertResult' = "ok"
            /\ journals' = Append(journals, initialJournalData(Len(journals) + 1))
            /\ journal' = initialJournalData(Len(journals) + 1)
            /\ pc' = "dispatch"
            /\ resp' = resp
    /\ UNCHANGED <<flaskLog, reqNo, session, aiCall, tags>>

\* route.ts 173-234: postData carries journal.id; req.write, req.end
PostSendDispatch ==
    /\ pc = "dispatch"
    /\ flaskLog' = Append(flaskLog, [req |-> reqNo, journal_id |-> journal.id,
                                     outcome |-> "inflight"])
    /\ pc' = "await"
    /\ UNCHANGED <<journals, reqNo, session, aiCall, tags, insertResult, journal, resp>>

SettleDispatch(o) ==
    [i \in 1..Len(flaskLog) |->
        IF i \in MyDispatches THEN [flaskLog[i] EXCEPT !.outcome = o] ELSE flaskLog[i]]

\* PostDispatchSettled without the inner catch of route.ts 240-244: a
\* rejected dispatch reaches the outer catch and the client gets the 500
PostDispatchSettled_Surfaced(o) ==
    /\ pc = "await"
    /\ flaskLog' = SettleDispatch(o)
    /\ IF o = "ok200"
       THEN pc' = "respond" /\ resp' = resp
       ELSE pc' = "done" /\ resp' = ErrorResp("Failed to create journal")
    /\ UNCHANGED <<journals, reqNo, session, aiCall, tags, insertResult, journal>>

\* PostDispatchSettled with a retry: a rejected dispatch is sent again
PostDispatchSettled_Retry(o) ==
    /\ pc = "await"
    /\ flaskLog' = SettleDispatch(o)
    /\ pc' = IF o = "ok200" THEN "respond" ELSE "dispatch"
    /\ UNCHANGED <<journals, reqNo, session, aiCall, tags, insertResult, journal, resp>>

\* PostDispatchSettled with a reconciliation: after a rejected dispatch
\* the handler clears the processing flag of the row itself
PostDispatchSettled_Reconcile(o) ==
    /\ pc = "await"
    /\ flaskLog' = SettleDispatch(o)
    /\ pc' = "respond"
    /\ journals' = IF o = "ok200" THEN journals
                   ELSE [journals EXCEPT ![journal.id] = [@ EXCEPT !.is_processing = FALSE]]
    /\ UNCHANGED <<reqNo, session, aiCall, tags, insertResult, journal, resp>>

\* route.ts 196-230 and 236-244: the promise settles (resolve on status 200;
\* reject on another status, on 'error', or on the 10 s timeout, which
\* destroys the request) and `await makeRequest` resumes; a rejection is
\* caught and logged.
PostDispatchSettled(o) ==
    /\ pc = "await"
    /\ flaskLog' = SettleDispatch(o)
    /\ pc' = "respond"
    /\ UNCHANGED <<journals, reqNo, session, aiCall, tags, insertResult, journal, resp>>

\* PostRespond without the `await makeRequest` of route.ts 238: the
\* response is returned while the dispatch is still in flight
PostRespond_NotAwaited ==
    /\ pc \in {"await", "respond"}
    /\ resp' = JournalResp(journal)
    /\ pc' = "done"
    /\ UNCHANGED <<journals, flaskLog, reqNo, session, aiCall, tags, insertResult, journal>>

\* route.ts 246-250
PostRespond ==
    /\ pc = "respond"
    /\ resp' = JournalResp(journal)
    /\ pc' = "done"
    /\ UNCHANGED <<journals, flaskLog, reqNo, session, aiCall, tags, insertResult, journal>>

\* The journal-processing service calls back POST /journal/webhook for a
\* request it received; the receiver makes the single finalizing update
\* (spec 4.3).  A request that failed at the network or was answered with
\* a non-200 status is not called back.
Webhook(id) ==
    /\ id \in 1..Len(journals)
    /\ \E i \in 1..Len(flaskLog) :
          /\ flaskLog[i].journal_id = id
          /\ flaskLog[i].outcome \in {"inflight", "ok200", "timeout"}
    /\ journals[id].is_processing
    /\ journals' = [journals EXCEPT ![id] =
                       [@ EXCEPT !.is_processing = FALSE, !.summary = "set",
                                 !.mood_tags = "set", !.keywords = "set"]]
    /\ UNCHANGED <<flaskLog, reqNo, pc, session, aiCall, tags, insertResult, journal, resp>>

JournalNext ==
    \/ \E s \in Sessions, bodyOk \in BOOLEAN : PostStart(s, bodyOk)
    \/ \E threw \in BOOLEAN, text \in JournalTexts : PostGenerateTags(threw, text)
    \/ \E failed \in BOOLEAN : PostInsert(failed)
    \/ PostSendDispatch
    \/ \E o \in DispatchOutcomes : PostDispatchSettled(o)
    \/ PostRespond
    \/ \E id \in 1..MaxReqs : Webhook(id)

(***************************************************************************)
(* Telegram webhook (part_000 1-270)                                       *)
(*                                                                         *)
(* A text is [toks, len, ellipsis]: the first len characters of the        *)
(* content toks, followed by "..." when ellipsis is set.                   *)
(* Tokens of a user message: "SP" space, "NL" newline, "/clear",           *)
(* "/CLEAR", "hi".                                                         *)
(***************************************************************************)
Txt(toks, len) == [toks |-> toks, len |-> len, ellipsis |-> FALSE]
NoText == Txt(<<>>, 0)

NotLinkedReply == Txt(<<"Sorry, your account is not linked. Please sign up on our website first.">>, 75)
ClearedReply == Txt(<<"Your chat history has been cleared.">>, 35)
WentWrongReply == Txt(<<"Sorry, something went wrong processing your message.">>, 52)
FallbackReply == Txt(<<"Sorry, the response was too large or took too long. Please try again with a shorter message.">>, 93)

UserTexts == {Txt(<<"/clear">>, 6), Txt(<<"SP", "/CLEAR", "NL">>, 8),
              Txt(<<"hi">>, 2), Txt(<<"/clear", "SP", "hi">>, 9), NoText}

\* result.response.text(): an answer longer than 4000 characters, so that
\* sendTelegramMessage cuts it; the fixed replies are the short texts
AIResponses == {Txt(<<"ai">>, 4001)}

ChatIds == {1, 2, 3}
\* data.message.chat.username || "unknown": chat 3 has no username
chatUsername(chat) ==
    CASE chat = 1 -> "alice" [] chat = 2 -> "bob" [] OTHER -> "unknown"
\* telegram_id values of the telegram_users table
telegram_users == {"alice", "bob"}

\* Updates: a body that is not JSON; an update without message; a message
\* with text but without chat; a message with chat and text (text may be
\* the empty string)
Updates ==
    {[kind |-> k, chat |-> 0, text |-> NoText] : k \in {"badjson", "nomessage"}}
    \cup {[kind |-> "nochat", chat |-> 0, text |-> Txt(<<"hi">>, 2)]}
    \cup {[kind |-> "message", chat |-> c, text |-> t] : c \in ChatIds, t \in UserTexts}
NoUpdate == [kind |-> "none", chat |-> 0, text |-> NoText]

toLowerCase(toks) ==
    [i \in 1..Len(toks) |-> IF toks[i] = "/CLEAR" THEN "/clear" ELSE toks[i]]

\* userMessage.trim().toLowerCase() === '/clear'  (part_000 136)
isClearCommand(text) == toLowerCase(Trim(text.toks)) = <<"/clear">>

\* if (data.message && data.message.text)  (part_000 112)
hasMessageText(u) == u.kind \in {"nochat", "message"} /\ u.text.len > 0

RECURSIVE takeLast(_, _)
reverse(sq) == [i \in 1..Len(sq) |-> sq[Len(sq) + 1 - i]]
takeLast(sq, n) == IF Len(sq) <= n THEN sq ELSE SubSeq(sq, Len(sq) - n + 1, Len(sq))

\* getTelegramChatHistory (part_000 16-29) on success: the rpc
\* get_telegram_chat_history(p_chat_id, p_limit) gives the newest p_limit
\* rows of that chat, newest first (formatChatHistory reverses them into
\* chronological order, part_000 35-36)
getTelegramChatHistory(chatId, limit) ==
    reverse(takeLast(SelectSeq(telegram_messages,
                               LAMBDA m : m.telegram_chat_id = chatId), limit))

HistoryLimit == 10

\* deleteChat with a filter that also requires is_bot = false: the
\* assistant's rows of the chat survive
deleteChat_UserRowsOnly(msgs, chatId) ==
    SelectSeq(msgs, LAMBDA m : ~(m.telegram_chat_id = chatId /\ ~m.is_bot))

\* .delete().eq('telegram_chat_id', chatId)  (part_000 52-55)
deleteChat(msgs, chatId) == SelectSeq(msgs, LAMBDA m : m.telegram_chat_id # chatId)

messageRow(u, content, isBot) ==
    [telegram_chat_id |-> u.chat, telegram_user_id |-> chatUsername(u.chat),
     content |-> content, is_bot |-> isBot]

\* text.length of a text: the characters taken from its content, and three
\* more when "..." was appended
length(text) == text.len + (IF text.ellipsis THEN 3 ELSE 0)

\* truncate with the cut at the limit itself: substring(0, 4000) + "..."
truncate_CutAtLimit(text) ==
    IF length(text) > 4000
    THEN [toks |-> text.toks, len |-> 4000, ellipsis |-> TRUE]
    ELSE text

\* if (text.length > 4000) text = text.substring(0, 3997) + "..."
\* (part_000 232-234); the text is longer than 3997 there, so the prefix
\* has exactly 3997 characters of the same content
truncate(text) ==
    IF length(text) > 4000
    THEN [toks |-> text.toks, len |-> 3997, ellipsis |-> TRUE]
    ELSE text

\* the three context values of processUpdate before their fetches returned
NoCtx == [journals |-> "none", activities |-> "none", user |-> "none"]

\* fetchRelevantJournalEntries, fetchActivities, fetchRelevantUserContext
\* (@/lib/ai): a fetch that fails logs a warning and gives an empty result
\* (spec 4.4)
fetchResult(failed) == IF failed THEN "empty" ELSE "data"

Did(e) == \E i \in 1..Len(tgTrace) : tgTrace[i] = e

TelegramInit ==
    /\ envToken \in BOOLEAN
    /\ envKey \in BOOLEAN
    /\ telegram_messages = <<>>
    /\ tgNo = 0
    /\ tgPc = "idle"
    /\ tgUpdate = NoUpdate
    /\ tgStatus = 0
    /\ tgUser = "none"
    /\ tgHistory = <<>>
    /\ tgCtx = NoCtx
    /\ tgAi = NoText
    /\ tgReply = NoText
    /\ tgSends = <<>>
    /\ tgTrace = <<>>
    /\ tgDbBefore = <<>>

\* TgReceive with a catch (part_000 91-104) that answers 400 to a body
\* that is not JSON
TgReceive_BadJson400(u) ==
    /\ tgPc \in {"idle", "done"}
    /\ tgNo < MaxUpdates
    /\ tgNo' = tgNo + 1
    /\ tgUpdate' = u
    /\ tgUser' = "none"
    /\ tgHistory' = <<>>
    /\ tgCtx' = NoCtx
    /\ tgAi' = NoText
    /\ tgReply' = NoText
    /\ tgSends' = <<>>
    /\ tgTrace' = <<>>
    /\ tgDbBefore' = telegram_messages
    /\ IF ~envToken \/ ~envKey
       THEN tgStatus' = 500 /\ tgPc' = "done"
       ELSE IF u.kind = "message" /\ hasMessageText(u)
            THEN tgStatus' = 0 /\ tgPc' = "lookup"
            ELSE tgStatus' = (IF u.kind = "badjson" THEN 400 ELSE 200) /\ tgPc' = "done"
    /\ UNCHANGED <<envToken, envKey, telegram_messages>>

\* POST (part_000 67-106) up to the first await inside processUpdate
\* (109-117): the configuration checks, req.json(), the message/text test
TgReceive(u) ==
    /\ tgPc \in {"idle", "done"}
    /\ tgNo < MaxUpdates
    /\ tgNo' = tgNo + 1
    /\ tgUpdate' = u
    /\ tgUser' = "none"
    /\ tgHistory' = <<>>
    /\ tgCtx' = NoCtx
    /\ tgAi' = NoText
    /\ tgReply' = NoText
    /\ tgSends' = <<>>
    /\ tgTrace' = <<>>
    /\ tgDbBefore' = telegram_messages
    /\ IF ~envToken \/ ~envKey
       THEN tgStatus' = 500 /\ tgPc' = "done"
       ELSE IF u.kind = "message" /\ hasMessageText(u)
            THEN tgStatus' = 0 /\ tgPc' = "lookup"
            \* req.json() threw (91-104), chat.id threw (221-223), or there
            \* is no message text
            ELSE tgStatus' = 200 /\ tgPc' = "done"
    /\ UNCHANGED <<envToken, envKey, telegram_messages>>

\* the catch of part_000 216-219
TgCatch ==
    /\ tgReply' = WentWrongReply
    /\ tgPc' = "send"

\* TgLookup with the /clear test (part_000 136) ahead of the test of the
\* lookup result (127)
TgLookup_ClearFirst(result) ==
    /\ tgPc = "lookup"
    /\ result \in {"error", "norow", "row"}
    /\ result = "row" => chatUsername(tgUpdate.chat) \in telegram_users
    /\ result = "norow" => chatUsername(tgUpdate.chat) \notin telegram_users
    /\ tgTrace' = Append(tgTrace, "lookup")
    /\ tgUser' = result
    /\ IF isClearCommand(tgUpdate.text)
       THEN tgReply' = tgReply /\ tgPc' = "clear"
       ELSE IF result # "row"
            THEN tgReply' = NotLinkedReply /\ tgPc' = "send"
            ELSE tgReply' = tgReply /\ tgPc' = "storeUser"
    /\ UNCHANGED <<envToken, envKey, telegram_messages, tgNo, tgUpdate, tgStatus,
                   tgHistory, tgAi, tgSends, tgDbBefore, tgCtx>>

\* part_000 120-140: the telegram_users lookup and the two short-circuits
TgLookup(result) ==
    /\ tgPc = "lookup"
    /\ result \in {"error", "norow", "row"}
    /\ result = "row" => chatUsername(tgUpdate.chat) \in telegram_users
    /\ result = "norow" => chatUsername(tgUpdate.chat) \notin telegram_users
    /\ tgTrace' = Append(tgTrace, "lookup")
    /\ tgUser' = result
    /\ IF result # "row"
       THEN tgReply' = NotLinkedReply /\ tgPc' = "send"
       ELSE /\ tgReply' = tgReply
            /\ tgPc' = IF isClearCommand(tgUpdate.text) THEN "clear" ELSE "storeUser"
    /\ UNCHANGED <<envToken, envKey, telegram_messages, tgNo, tgUpdate, tgStatus,
                   tgHistory, tgAi, tgSends, tgDbBefore, tgCtx>>

\* TgClearChatHistory with a clearChatHistory that logs the error instead
\* of throwing it (part_000 57-60)
TgClearChatHistory_Swallow(failed) ==
    /\ tgPc = "clear"
    /\ tgTrace' = Append(tgTrace, "delete")
    /\ telegram_messages' = IF failed THEN telegram_messages
                            ELSE deleteChat(telegram_messages, tgUpdate.chat)
    /\ tgReply' = ClearedReply
    /\ tgPc' = "send"
    /\ UNCHANGED <<envToken, envKey, tgNo, tgUpdate, tgStatus, tgUser, tgHistory, tgAi,
                   tgSends, tgDbBefore, tgCtx>>

\* clearChatHistory (part_000 49-64) called from 137; on error it throws
TgClearChatHistory(failed) ==
    /\ tgPc = "clear"
    /\ tgTrace' = Append(tgTrace, "delete")
    /\ IF failed
       THEN TgCatch /\ UNCHANGED telegram_messages
       ELSE /\ telegram_messages' = deleteChat(telegram_messages, tgUpdate.chat)
            /\ tgReply' = ClearedReply
            /\ tgPc' = "send"
    /\ UNCHANGED <<envToken, envKey, tgNo, tgUpdate, tgStatus, tgUser, tgHistory, tgAi,
                   tgSends, tgDbBefore, tgCtx>>

\* part_000 145-150: the result of the insert is not looked at
TgStoreUserMessage(failed) ==
    /\ tgPc = "storeUser"
    /\ tgTrace' = Append(tgTrace, "insert_user")
    /\ telegram_messages' =
          IF failed THEN telegram_messages
          ELSE Append(telegram_messages, messageRow(tgUpdate, tgUpdate.text, FALSE))
    /\ tgPc' = "history"
    /\ UNCHANGED <<envToken, envKey, tgNo, tgUpdate, tgStatus, tgUser, tgHistory, tgAi,
                   tgReply, tgSends, tgDbBefore, tgCtx>>

\* part_000 153 with 16-29: an rpc error gives []
TgGetHistory(failed) ==
    /\ tgPc = "history"
    /\ tgTrace' = Append(tgTrace, "history")
    /\ tgHistory' = IF failed THEN <<>>
                    ELSE getTelegramChatHistory(tgUpdate.chat, HistoryLimit)
    /\ tgPc' = "journals"
    /\ UNCHANGED <<envToken, envKey, telegram_messages, tgNo, tgUpdate, tgStatus, tgUser,
                   tgAi, tgReply, tgSends, tgDbBefore, tgCtx>>

\* TgFetch with a caller that gives up on an empty result: it throws into
\* the catch of part_000 216-219
TgFetch_AbortOnEmpty(at, field, event, next, failed) ==
    /\ tgPc = at
    /\ tgTrace' = Append(tgTrace, event)
    /\ tgCtx' = [tgCtx EXCEPT ![field] = fetchResult(failed)]
    /\ IF failed THEN TgCatch ELSE tgPc' = next /\ tgReply' = tgReply
    /\ UNCHANGED <<envToken, envKey, telegram_messages, tgNo, tgUpdate, tgStatus, tgUser,
                   tgHistory, tgAi, tgSends, tgDbBefore>>

\* TgFetch with fetches that are started and not awaited: the handler
\* moves on to the Gemini call after the first one returned
TgFetch_NotJoined(at, field, event, next, failed) ==
    /\ tgPc = at
    /\ tgTrace' = Append(tgTrace, event)
    /\ tgCtx' = [tgCtx EXCEPT ![field] = fetchResult(failed)]
    /\ tgPc' = "ai"
    /\ UNCHANGED <<envToken, envKey, telegram_messages, tgNo, tgUpdate, tgStatus, tgUser,
                   tgHistory, tgAi, tgReply, tgSends, tgDbBefore>>

\* part_000 164, 170, 175: the three context fetches, awaited one after
\* the other; each gives its result to the const it is assigned to
TgFetch(at, field, event, next, failed) ==
    /\ tgPc = at
    /\ tgTrace' = Append(tgTrace, event)
    /\ tgCtx' = [tgCtx EXCEPT ![field] = fetchResult(failed)]
    /\ tgPc' = next
    /\ UNCHANGED <<envToken, envKey, telegram_messages, tgNo, tgUpdate, tgStatus, tgUser,
                   tgHistory, tgAi, tgReply, tgSends, tgDbBefore>>

TgFetchJournalEntries(failed) ==
    TgFetch("journals", "journals", "ctx_journals", "activities", failed)
TgFetchActivities(failed) ==
    TgFetch("activities", "activities", "ctx_activities", "usercontext", failed)
TgFetchUserContext(failed) ==
    TgFetch("usercontext", "user", "ctx_user", "ai", failed)

\* part_000 181-203: format, prepareChatMessages, chat.sendMessage
TgSendToGemini(threw, answer) ==
    /\ tgPc = "ai"
    /\ tgTrace' = Append(tgTrace, "ai")
    /\ IF threw
       THEN TgCatch /\ tgAi' = tgAi
       ELSE tgAi' = answer /\ tgPc' = "storeBot" /\ tgReply' = tgReply
    /\ UNCHANGED <<envToken, envKey, telegram_messages, tgNo, tgUpdate, tgStatus, tgUser,
                   tgHistory, tgSends, tgDbBefore, tgCtx>>

\* TgStoreBotMessage storing the text as it is transmitted, cut to 4000
TgStoreBotMessage_StoresSent(failed) ==
    /\ tgPc = "storeBot"
    /\ tgTrace' = Append(tgTrace, "insert_bot")
    /\ telegram_messages' =
          IF failed THEN telegram_messages
          ELSE Append(telegram_messages, messageRow(tgUpdate, truncate(tgAi), TRUE))
    /\ tgReply' = tgAi
    /\ tgPc' = "send"
    /\ UNCHANGED <<envToken, envKey, tgNo, tgUpdate, tgStatus, tgUser, tgHistory, tgAi,
                   tgSends, tgDbBefore, tgCtx>>

\* part_000 206-214: the result of the insert is not looked at
TgStoreBotMessage(failed) ==
    /\ tgPc = "storeBot"
    /\ tgTrace' = Append(tgTrace, "insert_bot")
    /\ telegram_messages' =
          IF failed THEN telegram_messages
          ELSE Append(telegram_messages, messageRow(tgUpdate, tgAi, TRUE))
    /\ tgReply' = tgAi
    /\ tgPc' = "send"
    /\ UNCHANGED <<envToken, envKey, tgNo, tgUpdate, tgStatus, tgUser, tgHistory, tgAi,
                   tgSends, tgDbBefore, tgCtx>>

outbound(text, attempt, ok) ==
    [chat_id |-> tgUpdate.chat, text |-> text, attempt |-> attempt, ok |-> ok]

\* sendTelegramMessage, first attempt (part_000 228-251).  When it
\* succeeds processUpdate returns and POST answers 200 (86-90).
TgSendFirst(ok) ==
    /\ tgPc = "send"
    /\ tgTrace' = Append(tgTrace, "send")
    /\ tgSends' = Append(tgSends, outbound(truncate(tgReply), "first", ok))
    /\ IF ok
       THEN tgPc' = "done" /\ tgStatus' = 200
       ELSE tgPc' = "retry" /\ tgStatus' = tgStatus
    /\ UNCHANGED <<envToken, envKey, telegram_messages, tgNo, tgUpdate, tgUser, tgHistory,
                   tgAi, tgReply, tgDbBefore, tgCtx>>

\* TgSendRetry without the inner try/catch of part_000 256-268: a failed
\* retry leaves sendTelegramMessage as an exception and processUpdate's
\* catch (216-219) sends again
TgSendRetry_Propagates(ok) ==
    /\ tgPc = "retry"
    /\ tgTrace' = Append(tgTrace, "retry")
    /\ tgSends' = Append(tgSends, outbound(FallbackReply, "retry", ok))
    /\ IF ok
       THEN tgPc' = "done" /\ tgStatus' = 200 /\ tgReply' = tgReply
       ELSE TgCatch /\ tgStatus' = tgStatus
    /\ UNCHANGED <<envToken, envKey, telegram_messages, tgNo, tgUpdate, tgUser, tgHistory,
                   tgAi, tgDbBefore, tgCtx>>

\* TgSendRetry that keeps sending the fixed message until a send succeeds
TgSendRetry_UntilOk(ok) ==
    /\ tgPc = "retry"
    /\ tgTrace' = Append(tgTrace, "retry")
    /\ tgSends' = Append(tgSends, outbound(FallbackReply, "retry", ok))
    /\ IF ok
       THEN tgPc' = "done" /\ tgStatus' = 200
       ELSE tgPc' = "retry" /\ tgStatus' = tgStatus
    /\ UNCHANGED <<envToken, envKey, telegram_messages, tgNo, tgUpdate, tgUser, tgHistory,
                   tgAi, tgReply, tgDbBefore, tgCtx>>

\* sendTelegramMessage, the catch (part_000 252-269): one more fetch with
\* the fixed message; its response is not looked at, a throw is caught
TgSendRetry(ok) ==
    /\ tgPc = "retry"
    /\ tgTrace' = Append(tgTrace, "retry")
    /\ tgSends' = Append(tgSends, outbound(FallbackReply, "retry", ok))
    /\ tgPc' = "done"
    /\ tgStatus' = 200
    /\ UNCHANGED <<envToken, envKey, telegram_messages, tgNo, tgUpdate, tgUser, tgHistory,
                   tgAi, tgReply, tgDbBefore, tgCtx>>

TelegramNext ==
    \/ \E u \in Updates : TgReceive(u)
    \/ \E result \in {"error", "norow", "row"} : TgLookup(result)
    \/ \E failed \in BOOLEAN : TgClearChatHistory(failed)
    \/ \E failed \in BOOLEAN : TgStoreUserMessage(failed)
    \/ \E failed \in BOOLEAN : TgGetHistory(failed)
    \/ \E failed \in BOOLEAN : TgFetchJournalEntries(failed)
    \/ \E failed \in BOOLEAN : TgFetchActivities(failed)
    \/ \E failed \in BOOLEAN : TgFetchUserContext(failed)
    \/ \E threw \in BOOLEAN, answer \in AIResponses : TgSendToGemini(threw, answer)
    \/ \E failed \in BOOLEAN : TgStoreBotMessage(failed)
    \/ \E ok \in BOOLEAN : TgSendFirst(ok)
    \/ \E ok \in BOOLEAN : TgSendRetry(ok)

(***************************************************************************)
(* sendTelegramMessage on every text, GET /journal, the chat client        *)
(* (part_000 272-790) and the outbound enrichment call in detail           *)
(***************************************************************************)
\* the texts sendTelegramMessage is called with: one content per caller
\* (a fixed reply, the answer of the AI), every length up to MaxChars
SendTexts == {Txt(t, n) : t \in {<<"reply">>, <<"ai">>}, n \in 0..MaxChars}

TruncInit == tnText \in SendTexts /\ tnSent = NoText /\ tnPc = "call"

\* sendTelegramMessage up to the first fetch (part_000 227-244): the text
\* is cut, then put into the request body
TnTransmit ==
    /\ tnPc = "call"
    /\ tnSent' = truncate(tnText)
    /\ tnPc' = "sent"
    /\ UNCHANGED tnText

\* no GET request in flight
NoGet == [status |-> 0, session |-> "none", rows |-> <<>>]

\* .order("created_at", { ascending: false }) on a set of rows (route.ts 86)
RECURSIVE orderByCreatedAtDesc(_)
orderByCreatedAtDesc(rows) ==
    IF rows = {} THEN <<>>
    ELSE LET newest == CHOOSE r \in rows : \A q \in rows : q.created_at <= r.created_at
         IN <<newest>> \o orderByCreatedAtDesc(rows \ {newest})

\* the select without .eq('user_id', ...): every row of the table
selectJournals_AllUsers(uid) ==
    orderByCreatedAtDesc({journals[i] : i \in DOMAIN journals})

\* from("journals").select(...).eq('user_id', uid).order(...) (route.ts 70-86)
selectJournals(uid) ==
    orderByCreatedAtDesc({r \in {journals[i] : i \in DOMAIN journals} : r.user_id = uid})

\* GET (route.ts 60-107): 401 without a session; 500 when the select
\* returns an error or anything throws; else 200 with the selected rows.
\* The response is decided by the one read of the table.
GetJournals(s, failed) ==
    /\ getResp = NoGet
    /\ getResp' = IF s = "undefined" THEN [status |-> 401, session |-> s, rows |-> <<>>]
                  ELSE IF failed THEN [status |-> 500, session |-> s, rows |-> <<>>]
                  ELSE [status |-> 200, session |-> s, rows |-> selectJournals(s)]
    /\ UNCHANGED journalVars

\* the GET response has left; the next GET can arrive
GetReturn ==
    /\ getResp # NoGet
    /\ getResp' = NoGet
    /\ UNCHANGED journalVars

\* POST /journal, the webhook and GET requests; the table stands still
\* while a GET response is looked at
JournalGetNext ==
    \/ getResp = NoGet /\ JournalNext /\ UNCHANGED getVars
    \/ \E s \in Sessions, failed \in BOOLEAN : GetJournals(s, failed)
    \/ GetReturn

\* The body of the streamed response as tokens: "D" is the prefix
\* `data: `, "O" the JSON up to the text, a payload token the text itself,
\* "C" the rest of the JSON, "NL" a newline.  Every event is one line
\* followed by a blank line.
Payloads == {"a", "b"}
eventLine(text) == <<"D", "O", text, "C">>
RECURSIVE wire(_)
wire(events) ==
    IF events = <<>> THEN <<>>
    ELSE eventLine(Head(events)) \o <<"NL", "NL">> \o wire(Tail(events))

EventLists == UNION {[1..n -> Payloads] : n \in 1..MaxEvents}

\* chunk.split("\n") (part_000 509): cur is the line being collected
RECURSIVE split(_, _)
split(chunk, cur) ==
    IF chunk = <<>> THEN <<cur>>
    ELSE IF Head(chunk) = "NL" THEN <<cur>> \o split(Tail(chunk), <<>>)
    ELSE split(Tail(chunk), Append(cur, Head(chunk)))

\* .filter((line) => line.trim() !== "")
lines(chunk) == SelectSeq(split(chunk, <<>>), LAMBDA line : line # <<>>)

\* part_000 511-514 for one line: the text to append, <<>> when the line
\* does not start with `data: `, when JSON.parse of the rest throws (a
\* cut-off object is not JSON) or when there is no text
lineText(line) ==
    IF Len(line) >= 1 /\ line[1] = "D"
    THEN IF Len(line) = 4 /\ line[2] = "O" /\ line[3] \in Payloads /\ line[4] = "C"
         THEN <<line[3]>>
         ELSE <<>>
    ELSE <<>>

\* the for loop over the lines of one chunk (part_000 510-535)
RECURSIVE consume(_, _)
consume(ls, message) ==
    IF ls = <<>> THEN message
    ELSE consume(Tail(ls), message \o lineText(Head(ls)))

StreamInit ==
    /\ stEvents \in EventLists
    /\ stPos = 0
    /\ assistantMessage = <<>>
    /\ stShown = <<>>
    /\ stPc = "reading"

\* one turn of the while loop (part_000 505-536): reader.read() delivers
\* the next n tokens of the body, wherever the network cut it; the chunk
\* is decoded and split on its own, nothing is kept for the next read
StRead(n) ==
    /\ stPc = "reading"
    /\ stPos + n <= Len(wire(stEvents))
    /\ LET chunk == SubSeq(wire(stEvents), stPos + 1, stPos + n)
           message == consume(lines(chunk), assistantMessage)
       IN /\ assistantMessage' = message
          /\ stShown' = IF message # assistantMessage THEN message ELSE stShown
    /\ stPos' = stPos + n
    /\ UNCHANGED <<stEvents, stPc>>

\* reader.read() reports done; the final message update (part_000 506, 539-545)
StEnd ==
    /\ stPc = "reading"
    /\ stPos = Len(wire(stEvents))
    /\ stShown' = assistantMessage
    /\ stPc' = "ended"
    /\ UNCHANGED <<stEvents, stPos, assistantMessage>>

StreamNext ==
    \/ \E n \in 1..Len(wire(stEvents)) : StRead(n)
    \/ StEnd

SpokenTexts == {"t1", "t2"}
VoiceProviders == {"awspolly", "browser"}

\* the refs and the speech queue as one value, for the helper functions
player == [isPlaying |-> isPlayingRef, audio |-> currentAudioRef,
           utterance |-> utterance, spoken |-> spoken]

setPlayer(st) ==
    /\ isPlayingRef' = st.isPlaying
    /\ currentAudioRef' = st.audio
    /\ utterance' = st.utterance
    /\ spoken' = st.spoken

\* stopCurrentAudio (part_000 449-460)
stopCurrentAudio(st) ==
    [st EXCEPT !.audio = "null", !.utterance = FALSE, !.isPlaying = FALSE]

\* speakTextWebSpeech (part_000 675-715): returns at once when there is no
\* speechSynthesis or isPlayingRef.current is set; else stops what plays,
\* sets isPlayingRef.current and speaks the utterance
speakTextWebSpeech(st, text) ==
    IF ~speechSynthesis \/ st.isPlaying THEN st
    ELSE [stopCurrentAudio(st) EXCEPT
             !.isPlaying = TRUE, !.utterance = TRUE,
             !.spoken = Append(st.spoken, [engine |-> "webspeech", text |-> text])]

SpeechInit ==
    /\ speechSynthesis \in BOOLEAN
    /\ isVoiceResponseEnabled \in BOOLEAN
    /\ voiceProvider \in VoiceProviders
    /\ isPlayingRef = FALSE
    /\ currentAudioRef = "null"
    /\ utterance = FALSE
    /\ spoken = <<>>
    /\ spNo = 0
    /\ spText = "none"
    /\ spPc = "idle"
    /\ spFailedAt = "none"

\* speakText (part_000 780-790) and the start of the function it calls:
\* speakTextPolly up to pollyClient.send (717-744), or speakTextWebSpeech
SpeakText(text) ==
    /\ spPc \in {"idle", "done"}
    /\ spNo < MaxSpeaks
    /\ spNo' = spNo + 1
    /\ spText' = text
    /\ spFailedAt' = "none"
    /\ IF ~isVoiceResponseEnabled
       THEN spPc' = "done" /\ setPlayer(player)
       ELSE IF voiceProvider = "awspolly"
       THEN spPc' = "send" /\ setPlayer(stopCurrentAudio(player))
       ELSE spPc' = "done" /\ setPlayer(speakTextWebSpeech(player, text))
    /\ UNCHANGED <<speechSynthesis, isVoiceResponseEnabled, voiceProvider>>

\* the catch of speakTextPolly (part_000 768-777), entered from step `at`
PollyCatch(at) ==
    /\ spFailedAt' = at
    /\ spPc' = "done"
    /\ setPlayer(speakTextWebSpeech(player, spText))

\* await pollyClient.send(command) (part_000 744-747): it throws, or
\* answers with or without an AudioStream
PollySend(outcome) ==
    /\ spPc = "send"
    /\ CASE outcome = "threw" -> PollyCatch("send")
         [] outcome = "nostream" ->
               spPc' = "done" /\ setPlayer(player) /\ spFailedAt' = spFailedAt
         [] OTHER ->
               spPc' = "convert" /\ setPlayer(player) /\ spFailedAt' = spFailedAt
    /\ UNCHANGED <<speechSynthesis, isVoiceResponseEnabled, voiceProvider, spNo, spText>>

\* await data.AudioStream.transformToByteArray() and the set-up of the
\* Audio element, up to isPlayingRef.current = true (part_000 748-764)
PollyConvert(threw) ==
    /\ spPc = "convert"
    /\ IF threw
       THEN PollyCatch("convert")
       ELSE /\ spPc' = "play"
            /\ setPlayer([player EXCEPT !.audio = "loaded", !.isPlaying = TRUE])
            /\ spFailedAt' = spFailedAt
    /\ UNCHANGED <<speechSynthesis, isVoiceResponseEnabled, voiceProvider, spNo, spText>>

\* await audio.play() (part_000 765): playback starts or the promise rejects
PollyPlay(rejected) ==
    /\ spPc = "play"
    /\ IF rejected
       THEN PollyCatch("play")
       ELSE /\ spPc' = "done"
            /\ setPlayer([player EXCEPT !.audio = "playing",
                              !.spoken = Append(spoken, [engine |-> "polly", text |-> spText])])
            /\ spFailedAt' = spFailedAt
    /\ UNCHANGED <<speechSynthesis, isVoiceResponseEnabled, voiceProvider, spNo, spText>>

\* audio.onended (part_000 758-762)
AudioEnded ==
    /\ currentAudioRef = "playing"
    /\ setPlayer([player EXCEPT !.audio = "null", !.isPlaying = FALSE])
    /\ UNCHANGED <<speechSynthesis, isVoiceResponseEnabled, voiceProvider, spNo, spText,
                   spPc, spFailedAt>>

\* utterance.onend / utterance.onerror (part_000 708-713)
UtteranceEnded ==
    /\ utterance
    /\ setPlayer([player EXCEPT !.utterance = FALSE, !.isPlaying = FALSE])
    /\ UNCHANGED <<speechSynthesis, isVoiceResponseEnabled, voiceProvider, spNo, spText,
                   spPc, spFailedAt>>

SpeechNext ==
    \/ \E text \in SpokenTexts : SpeakText(text)
    \/ \E outcome \in {"ok", "nostream", "threw"} : PollySend(outcome)
    \/ \E threw \in BOOLEAN : PollyConvert(threw)
    \/ \E rejected \in BOOLEAN : PollyPlay(rejected)
    \/ AudioEnded
    \/ UtteranceEnded

StatusCodes == {200, 404, 500}

DispatchInit ==
    /\ dsPc = "await"
    /\ dsPromise = "pending"
    /\ dsOutcome = "none"
    /\ dsStatus = 0
    /\ dsData = 0
    /\ dsEnded = FALSE
    /\ dsIdle = 0
    /\ dsDestroyed = FALSE
    /\ dsErrored = FALSE

\* resolve(...) / reject(...) of makeRequest: the first call settles the
\* promise, later calls have no effect
settle(o) ==
    IF dsPromise = "pending"
    THEN /\ dsPromise' = (IF o = "ok200" THEN "resolved" ELSE "rejected")
         /\ dsOutcome' = o
    ELSE UNCHANGED <<dsPromise, dsOutcome>>

\* the socket is open and the exchange is not over
dsOpen == ~dsDestroyed /\ ~dsErrored /\ ~dsEnded

\* the response callback of https.request (route.ts 196-198): status line
\* and headers have arrived
DsResponse(code) ==
    /\ dsOpen
    /\ dsStatus = 0
    /\ dsStatus' = code
    /\ dsIdle' = 0
    /\ UNCHANGED <<dsPc, dsPromise, dsOutcome, dsData, dsEnded, dsDestroyed, dsErrored>>

\* res.on('data') (route.ts 200-202): bytes on the socket restart the
\* inactivity timer that req.setTimeout set on it
DsData ==
    /\ dsOpen
    /\ dsStatus # 0
    /\ dsData' = (IF dsData < MaxChunks THEN dsData + 1 ELSE dsData)
    /\ dsIdle' = 0
    /\ UNCHANGED <<dsPc, dsPromise, dsOutcome, dsStatus, dsEnded, dsDestroyed, dsErrored>>

\* res.on('end') (route.ts 204-213)
DsEnd ==
    /\ dsOpen
    /\ dsStatus # 0
    /\ dsEnded' = TRUE
    /\ settle(IF dsStatus # 200 THEN "non200" ELSE "ok200")
    /\ UNCHANGED <<dsPc, dsStatus, dsData, dsIdle, dsDestroyed, dsErrored>>

\* req.on('error') (route.ts 216-223); a destroyed request that has no
\* complete response reports an error once more
DsError ==
    /\ ~dsErrored
    /\ ~dsEnded
    /\ dsErrored' = TRUE
    /\ settle("neterr")
    /\ UNCHANGED <<dsPc, dsStatus, dsData, dsEnded, dsIdle, dsDestroyed>>

\* time passes with nothing read from or written to the socket
DsTick ==
    /\ dsOpen
    /\ dsIdle < IdleTicks
    /\ dsIdle' = dsIdle + 1
    /\ UNCHANGED <<dsPc, dsPromise, dsOutcome, dsStatus, dsData, dsEnded, dsDestroyed,
                   dsErrored>>

\* the callback of req.setTimeout(10000, ...) (route.ts 225-230): the
\* socket was inactive for the whole time
DsTimeout ==
    /\ dsOpen
    /\ dsIdle = IdleTicks
    /\ dsDestroyed' = TRUE
    /\ settle("timeout")
    /\ UNCHANGED <<dsPc, dsStatus, dsData, dsEnded, dsIdle, dsErrored>>

\* `await makeRequest` resumes, into the try or into the catch (route.ts 236-244)
DsResume ==
    /\ dsPc = "await"
    /\ dsPromise # "pending"
    /\ dsPc' = "resumed"
    /\ UNCHANGED <<dsPromise, dsOutcome, dsStatus, dsData, dsEnded, dsIdle, dsDestroyed,
                   dsErrored>>

\* route.ts 246-250
DsReturn ==
    /\ dsPc = "resumed"
    /\ dsPc' = "returned"
    /\ UNCHANGED <<dsPromise, dsOutcome, dsStatus, dsData, dsEnded, dsIdle, dsDestroyed,
                   dsErrored>>

DispatchNext ==
    \/ \E code \in StatusCodes : DsResponse(code)
    \/ DsData
    \/ DsEnd
    \/ DsError
    \/ DsTick
    \/ DsTimeout
    \/ DsResume
    \/ DsReturn

(***************************************************************************)
(* Chat client: the message list while a response streams (part_000        *)
(* 386-447, 472-567).  A chunk is one whole data: event here.  State        *)
(* updates are applied in the order they are issued; the effect on          *)
(* currentChatId runs with the update that changed it.                      *)
(***************************************************************************)
msg(role, content) == [role |-> role, content |-> content]
userMessage == msg("user", <<"q">>)
\* the messages of the chat "c1" that exists before the exchange
OldMessages == <<msg("user", <<"q0">>), msg("assistant", <<"a">>)>>
\* the chat the response belongs to: "c2" is the id the server gives to a
\* chat created by this exchange
streamChat == IF hsChatId = "null" THEN "c2" ELSE hsChatId
\* [...prev.slice(0, -1), { role: "assistant", content }] (part_000 516-522, 540-545)
replaceLast(prev, content) ==
    Append(IF prev = <<>> THEN <<>> ELSE SubSeq(prev, 1, Len(prev) - 1),
           msg("assistant", content))

\* GET /api/chat/<id> as the server answers it now
serverMessages(id) == (IF id = "c1" THEN OldMessages ELSE <<>>) \o
                      (IF id = streamChat THEN srvStored ELSE <<>>)
\* GET /api/chat as the server answers it now: the new chat exists from the
\* moment the server answers with its id
serverChats ==
    IF hsChatId = "null" /\ hsPc \in {"reading", "done"} /\ ~hsFailed
    THEN <<"c2", "c1">>
    ELSE <<"c1">>

\* no handler is running and no request is in flight
HandlersIdle ==
    /\ isDeleting = FALSE
    /\ hsPc = "idle"
    /\ hsChatId = "null"
    /\ hsBefore = <<>>
    /\ hsAssistant = <<>>
    /\ hsFailed = FALSE
    /\ reloads = 0
    /\ chatFetches = 0
    /\ srvStored = <<>>
    /\ delPc = "idle"
    /\ delChatId = "null"
    /\ delChats = <<>>
    /\ delMessages = <<>>

ChatInit ==
    /\ HandlersIdle
    /\ currentChatId \in {"null", "c1"}
    /\ messages = (IF currentChatId = "c1" THEN OldMessages ELSE <<>>)
    /\ chats = <<"c1">>
    /\ isDeleteDialogOpen = FALSE

\* handleSubmit up to the fetch (part_000 472-491)
HsSubmit ==
    /\ hsPc = "idle"
    /\ hsPc' = "fetch"
    /\ hsChatId' = currentChatId
    /\ hsBefore' = messages
    /\ messages' = Append(messages, userMessage)
    /\ UNCHANGED <<chats, currentChatId, isDeleting, isDeleteDialogOpen, hsAssistant, hsFailed,
                   reloads, chatFetches, srvStored, delPc, delChatId, delChats, delMessages>>

\* the response arrives (part_000 493-503): not ok throws into the catch
\* (552-563), else the assistant placeholder is appended
HsResponse(ok) ==
    /\ hsPc = "fetch"
    /\ IF ok
       THEN /\ messages' = Append(messages, msg("assistant", <<>>))
            /\ hsPc' = "reading"
            /\ hsFailed' = FALSE
       ELSE /\ messages' = Append(messages, msg("assistant", <<"error">>))
            /\ hsPc' = "done"
            /\ hsFailed' = TRUE
    /\ UNCHANGED <<chats, currentChatId, isDeleting, isDeleteDialogOpen, hsChatId, hsBefore,
                   hsAssistant, reloads, chatFetches, srvStored, delPc, delChatId, delChats,
                   delMessages>>

\* one chunk with text (part_000 505-530).  The closure's currentChatId
\* stays what it was at submit; setCurrentChatId with a new value runs the
\* effect of 387-393, which starts fetchChatMessages.
HsChunk(text, withId) ==
    /\ hsPc = "reading"
    /\ Len(hsAssistant) < MaxEvents
    /\ hsAssistant' = Append(hsAssistant, text)
    /\ messages' = replaceLast(messages, Append(hsAssistant, text))
    /\ IF withId /\ hsChatId = "null"
       THEN /\ currentChatId' = streamChat
            /\ reloads' = (IF currentChatId # streamChat THEN reloads + 1 ELSE reloads)
            /\ chatFetches' = chatFetches + 1
       ELSE UNCHANGED <<currentChatId, reloads, chatFetches>>
    /\ UNCHANGED <<chats, isDeleting, isDeleteDialogOpen, hsPc, hsChatId, hsBefore, hsFailed,
                   srvStored, delPc, delChatId, delChats, delMessages>>

\* reader.read() reports done: the final message update (part_000 506, 539-545)
HsEnd ==
    /\ hsPc = "reading"
    /\ hsAssistant # <<>>
    /\ messages' = replaceLast(messages, hsAssistant)
    /\ hsPc' = "done"
    /\ UNCHANGED <<chats, currentChatId, isDeleting, isDeleteDialogOpen, hsChatId, hsBefore,
                   hsAssistant, hsFailed, reloads, chatFetches, srvStored, delPc, delChatId,
                   delChats, delMessages>>

\* fetchChatMessages gets its answer (part_000 421-447): the list is
\* replaced by what the server holds; a failed fetch only shows a toast
ReloadArrives(ok) ==
    /\ reloads > 0
    /\ reloads' = reloads - 1
    /\ messages' = (IF ok THEN serverMessages(currentChatId) ELSE messages)
    /\ UNCHANGED <<chats, currentChatId, isDeleting, isDeleteDialogOpen, hsPc, hsChatId,
                   hsBefore, hsAssistant, hsFailed, chatFetches, srvStored, delPc, delChatId,
                   delChats, delMessages>>

\* fetchUserChats gets its answer (part_000 395-419): the chat list is
\* replaced and the most recent chat selected
ChatsArrive(ok) ==
    /\ chatFetches > 0
    /\ chatFetches' = chatFetches - 1
    /\ IF ok
       THEN /\ chats' = serverChats
            /\ currentChatId' = serverChats[1]
            /\ reloads' = (IF currentChatId # serverChats[1] THEN reloads + 1 ELSE reloads)
       ELSE UNCHANGED <<chats, currentChatId, reloads>>
    /\ UNCHANGED <<messages, isDeleting, isDeleteDialogOpen, hsPc, hsChatId, hsBefore,
                   hsAssistant, hsFailed, srvStored, delPc, delChatId, delChats, delMessages>>

\* The server persists the user message once it has the request, and the
\* full answer once the stream is complete (spec 3, Message Persister).
SrvPersist ==
    /\ \/ hsPc \in {"fetch", "reading"} /\ srvStored = <<>>
          /\ srvStored' = <<userMessage>>
       \/ hsPc = "done" /\ ~hsFailed /\ srvStored = <<userMessage>>
          /\ srvStored' = <<userMessage, msg("assistant", hsAssistant)>>
    /\ UNCHANGED <<messages, chats, currentChatId, isDeleting, isDeleteDialogOpen, hsPc,
                   hsChatId, hsBefore, hsAssistant, hsFailed, reloads, chatFetches, delPc,
                   delChatId, delChats, delMessages>>

ChatNext ==
    \/ HsSubmit
    \/ \E ok \in BOOLEAN : HsResponse(ok)
    \/ \E text \in Payloads, withId \in BOOLEAN : HsChunk(text, withId)
    \/ HsEnd
    \/ \E ok \in BOOLEAN : ReloadArrives(ok)
    \/ \E ok \in BOOLEAN : ChatsArrive(ok)
    \/ SrvPersist

(***************************************************************************)
(* Chat client: deleteChat (part_000 587-622), run from the confirmation   *)
(* dialog with no other handler in between.                                 *)
(***************************************************************************)
ChatKeys == {"c1", "c2", "c3"}

DeleteInit ==
    /\ HandlersIdle
    /\ chats \in UNION {[1..n -> ChatKeys] : n \in 0..MaxChats}
    /\ \A i, j \in 1..Len(chats) : i # j => chats[i] # chats[j]
    /\ currentChatId \in ChatKeys \cup {"null"}
    /\ messages \in {<<>>, OldMessages}
    /\ isDeleteDialogOpen \in BOOLEAN

\* deleteChat up to the await (part_000 587-595)
DeleteStart ==
    /\ delPc = "idle"
    /\ delChatId' = currentChatId
    /\ delChats' = chats
    /\ delMessages' = messages
    /\ IF currentChatId = "null"
       THEN delPc' = "returned" /\ UNCHANGED isDeleting
       ELSE delPc' = "await" /\ isDeleting' = TRUE
    /\ UNCHANGED <<messages, chats, currentChatId, isDeleteDialogOpen, hsPc, hsChatId, hsBefore,
                   hsAssistant, hsFailed, reloads, chatFetches, srvStored>>

\* the DELETE settles (part_000 597-621): ok runs the rest of the try block,
\* a response that is not ok or a rejected fetch goes through the catch;
\* the finally block runs in both cases.  Clearing currentChatId re-runs
\* the effect of 387-393, which sets the message list to [] once more.
\* A variant that resets the view whatever the DELETE answered.
DeleteSettle_ResetsAlways(ok) ==
    /\ delPc = "await"
    /\ chats' = (IF ok THEN SelectSeq(delChats, LAMBDA c : c # delChatId) ELSE chats)
    /\ messages' = <<>>
    /\ currentChatId' = "null"
    /\ delPc' = (IF ok THEN "deleted" ELSE "failed")
    /\ isDeleting' = FALSE
    /\ isDeleteDialogOpen' = FALSE
    /\ UNCHANGED <<hsPc, hsChatId, hsBefore, hsAssistant, hsFailed, reloads, chatFetches,
                   srvStored, delChatId, delChats, delMessages>>
DeleteSettle(ok) ==
    /\ delPc = "await"
    /\ IF ok
       THEN /\ chats' = SelectSeq(delChats, LAMBDA c : c # delChatId)
            /\ messages' = <<>>
            /\ currentChatId' = "null"
            /\ delPc' = "deleted"
       ELSE /\ UNCHANGED <<chats, messages, currentChatId>>
            /\ delPc' = "failed"
    /\ isDeleting' = FALSE
    /\ isDeleteDialogOpen' = FALSE
    /\ UNCHANGED <<hsPc, hsChatId, hsBefore, hsAssistant, hsFailed, reloads, chatFetches,
                   srvStored, delChatId, delChats, delMessages>>

DeleteNext ==
    \/ DeleteStart
    \/ \E ok \in BOOLEAN : DeleteSettle(ok)

(***************************************************************************)
(* Specifications.  Each one runs one part of the program and leaves the   *)
(* variables of the other parts at rest.                                   *)
(***************************************************************************)
TagRest == modelText = <<>> /\ tagsResult = NoResult /\ tagPc = "call"
SpeechRest ==
    /\ SpeechInit
    /\ speechSynthesis /\ isVoiceResponseEnabled /\ voiceProvider = "awspolly"
StreamRest ==
    /\ stEvents = <<>> /\ stPos = 0 /\ assistantMessage = <<>>
    /\ stShown = <<>> /\ stPc = "ended"
GetRest == getResp = NoGet
TruncRest == tnText = NoText /\ tnSent = NoText /\ tnPc = "sent"
DispatchRest ==
    /\ dsPc = "returned" /\ dsPromise = "resolved" /\ dsOutcome = "ok200"
    /\ dsStatus = 200 /\ dsData = 0 /\ dsEnded = TRUE /\ dsIdle = 0
    /\ dsDestroyed = FALSE /\ dsErrored = FALSE
TelegramRest == TelegramInit /\ envToken /\ envKey
ChatRest == ChatInit /\ currentChatId = "null"

Next ==
    JournalNext /\ UNCHANGED <<tagVars, telegramVars, truncVars, getVars,
                              streamVars, speechVars, dispatchVars, chatVars>>

\* POST /journal
Init ==
    /\ TagRest /\ JournalInit /\ TelegramRest /\ TruncRest /\ GetRest /\ StreamRest
    /\ SpeechRest /\ DispatchRest /\ ChatRest
Spec == Init /\ [][Next]_vars

\* generateTags on every text
TagSpecInit ==
    /\ TagInit /\ JournalInit /\ TelegramRest /\ TruncRest /\ GetRest /\ StreamRest
    /\ SpeechRest /\ DispatchRest /\ ChatRest
TagSpec ==
    /\ TagSpecInit
    /\ [][GenerateTagsReturn /\ UNCHANGED <<journalVars, telegramVars, truncVars, getVars,
                                            streamVars, speechVars, dispatchVars, chatVars>>]_vars

\* the Telegram webhook
TelegramSpecInit ==
    /\ TagRest /\ JournalInit /\ TelegramInit /\ TruncRest /\ GetRest /\ StreamRest
    /\ SpeechRest /\ DispatchRest /\ ChatRest
TelegramSpec ==
    /\ TelegramSpecInit
    /\ [][TelegramNext /\ UNCHANGED <<tagVars, journalVars, truncVars, getVars,
                                      streamVars, speechVars, dispatchVars, chatVars>>]_vars

\* sendTelegramMessage on every text
TruncateSpecInit ==
    /\ TagRest /\ JournalInit /\ TelegramRest /\ TruncInit /\ GetRest /\ StreamRest
    /\ SpeechRest /\ DispatchRest /\ ChatRest
TruncateSpec ==
    /\ TruncateSpecInit
    /\ [][TnTransmit /\ UNCHANGED <<tagVars, journalVars, telegramVars, getVars,
                                    streamVars, speechVars, dispatchVars, chatVars>>]_vars

\* GET /journal beside POST /journal and the webhook
JournalGetSpec ==
    /\ Init
    /\ [][JournalGetNext /\ UNCHANGED <<tagVars, telegramVars, truncVars, streamVars,
                                        speechVars, dispatchVars, chatVars>>]_vars

\* the chat client reading one streamed response
StreamSpecInit ==
    /\ TagRest /\ JournalInit /\ TelegramRest /\ TruncRest /\ GetRest /\ StreamInit
    /\ SpeechRest /\ DispatchRest /\ ChatRest
StreamSpec ==
    /\ StreamSpecInit
    /\ [][StreamNext /\ UNCHANGED <<tagVars, journalVars, telegramVars, truncVars,
                                    getVars, speechVars, dispatchVars, chatVars>>]_vars

\* the chat client speaking answers
SpeechSpecInit ==
    /\ TagRest /\ JournalInit /\ TelegramRest /\ TruncRest /\ GetRest /\ StreamRest
    /\ SpeechInit /\ DispatchRest /\ ChatRest
SpeechSpec ==
    /\ SpeechSpecInit
    /\ [][SpeechNext /\ UNCHANGED <<tagVars, journalVars, telegramVars, truncVars,
                                    getVars, streamVars, dispatchVars, chatVars>>]_vars

\* the chat client sending one message and reading the streamed answer
ChatSpecInit ==
    /\ TagRest /\ JournalInit /\ TelegramRest /\ TruncRest /\ GetRest /\ StreamRest
    /\ SpeechRest /\ DispatchRest /\ ChatInit
ChatSpec ==
    /\ ChatSpecInit
    /\ [][ChatNext /\ UNCHANGED <<tagVars, journalVars, telegramVars, truncVars,
                                  getVars, streamVars, speechVars, dispatchVars>>]_vars

\* deleteChat called once from any state of the chat view
DeleteSpecInit ==
    /\ TagRest /\ JournalInit /\ TelegramRest /\ TruncRest /\ GetRest /\ StreamRest
    /\ SpeechRest /\ DispatchRest /\ DeleteInit
DeleteSpec ==
    /\ DeleteSpecInit
    /\ [][DeleteNext /\ UNCHANGED <<tagVars, journalVars, telegramVars, truncVars,
                                    getVars, streamVars, speechVars, dispatchVars>>]_vars

\* the outbound enrichment call.  Time passes, a due timeout callback
\* runs, and the handler runs when it can; nothing obliges the enrichment
\* service to answer, to send data or to end its response.
DispatchSpecInit ==
    /\ TagRest /\ JournalInit /\ TelegramRest /\ TruncRest /\ GetRest /\ StreamRest
    /\ SpeechRest /\ DispatchInit /\ ChatRest
DispatchFairSpec ==
    /\ DispatchSpecInit
    /\ [][DispatchNext /\ UNCHANGED <<tagVars, journalVars, telegramVars, truncVars,
                                      getVars, streamVars, speechVars, chatVars>>]_vars
    /\ WF_dispatchVars(DsTick) /\ WF_dispatchVars(DsTimeout)
    /\ WF_dispatchVars(DsResume) /\ WF_dispatchVars(DsReturn)

(***************************************************************************)
(* Properties of POST /journal (checked under Spec)                        *)
(***************************************************************************)
\* outcome of the dispatch of the request in flight ("none" if not sent)
myOutcome ==
    IF MyDispatches = {} THEN "none"
    ELSE flaskLog[CHOOSE i \in MyDispatches : TRUE].outcome

C2_Original == pc = "await" => ENABLED PostRespond

\* C2 amended: the response of POST /journal is released only after the
\* dispatch has settled (200, non-200, network error or timeout): while the
\* dispatch is in flight no response has been given, and a 200 response
\* implies a settled dispatch.
C2_ResponseAfterSettle ==
    /\ myOutcome = "inflight" => resp = NoResp
    /\ resp.status = 200 => myOutcome \in DispatchOutcomes

\* C2 witness: a response given after the service answered 200
C2_Witness == resp.status = 200 /\ myOutcome = "ok200" /\ pc = "done"

\* C3 as stated: when the completion call throws, the tags are the empty
\* list and the record is still persisted and returned.
C3_Claim ==
    (aiCall = "threw" /\ pc = "done") =>
        /\ tags = EmptyList
        /\ insertResult = "ok"
        /\ \E id \in 1..Len(journals) : journals[id].created_at = reqNo
        /\ resp.status = 200
        /\ resp.body = "journal"

\* C5: when the insert fails the response is 500 with an {error} body, no
\* request has been sent to the journal-processing service for this
\* request, and no journals row exists for it.
C5_InsertFailure ==
    insertResult = "error" =>
        /\ pc = "done"
        /\ resp.status = 500
        /\ resp.body = "error"
        /\ resp.error = "insertError.message"
        /\ MyDispatches = {}
        /\ \A id \in 1..Len(journals) : journals[id].created_at # reqNo

\* C5 witness: a failed insert of a second request, after the first one
\* stored its row and sent its dispatch
C5_Witness ==
    /\ insertResult = "error"
    /\ pc = "done"
    /\ Len(journals) = 1
    /\ Len(flaskLog) = 1

\* C6: every POST /journal request sends at most one request to the
\* journal-processing service, also after a failure or timeout; a request
\* is sent only by a handler whose insert succeeded, and it carries the id
\* of the row that this same handler stored.
C6_SingleDispatch ==
    /\ \A i, j \in 1..Len(flaskLog) : flaskLog[i].req = flaskLog[j].req => i = j
    /\ \A i \in 1..Len(flaskLog) :
          /\ flaskLog[i].journal_id \in 1..Len(journals)
          /\ journals[flaskLog[i].journal_id].created_at = flaskLog[i].req
    /\ MyDispatches # {} =>
          /\ insertResult = "ok"
          /\ \A i \in MyDispatches : flaskLog[i].journal_id = journal.id

\* C6 witness: the second request finished after its single dispatch was
\* answered with a non-200 status
C6_Witness ==
    /\ pc = "done"
    /\ reqNo = 2
    /\ myOutcome = "non200"
    /\ Cardinality(MyDispatches) = 1
    /\ journal.id = Len(journals)

(***************************************************************************)
(* Properties of generateTags (checked under TagSpec)                      *)
(***************************************************************************)
\* C4 as stated: for every model response text generateTags returns a list
\* of strings - the empty list when the cleaned text is not valid JSON,
\* and otherwise a list, never an object, a string, a number or null.
C4_Claim ==
    tagPc = "returned" =>
        /\ ~JSONParse(cleanJson(modelText)).ok => tagsResult = EmptyList
        /\ IsListOfStrings(tagsResult)

(***************************************************************************)
(* Properties of the Telegram webhook (checked under TelegramSpec)         *)
(***************************************************************************)
TraceWithin(events) == \A i \in 1..Len(tgTrace) : tgTrace[i] \in events
ChatRows(msgs, chat) == SelectSeq(msgs, LAMBDA m : m.telegram_chat_id = chat)

\* the sender of the update in flight was found not linked (part_000 127)
Unlinked == tgUser \in {"error", "norow"}
\* the update in flight is a /clear command of a linked sender
LinkedClear == tgUser = "row" /\ isClearCommand(tgUpdate.text)

C8_Original ==
    (Unlinked /\ tgPc = "done") =>
        /\ Len(tgSends) = 1
        /\ tgSends[1].text = NotLinkedReply
        /\ TraceWithin({"lookup", "send"})
        /\ telegram_messages = tgDbBefore

\* C8 amended: for a text message of a sender without account mapping the
\* only text handed to sendTelegramMessage is the account-not-linked reply;
\* the requests sent are that reply and, only if that attempt failed, the
\* one fallback message of sendTelegramMessage; no AI call, no context or
\* history fetch is made and no telegram_messages row is stored or deleted,
\* for every message text, '/clear' included.
C8_UnlinkedShortCircuit ==
    Unlinked =>
        /\ tgReply = NotLinkedReply
        /\ TraceWithin({"lookup", "send", "retry"})
        /\ telegram_messages = tgDbBefore
        /\ \A i \in 1..Len(tgSends) :
              /\ i = 1 => tgSends[i].text = NotLinkedReply
              /\ i = 2 => ~tgSends[1].ok /\ tgSends[i].text = FallbackReply
              /\ i <= 2
        /\ tgPc = "done" => Len(tgSends) >= 1

\* C8 witness: '/clear' in a chat that has stored messages, answered with
\* the account-not-linked reply because the lookup failed
C8_Witness ==
    /\ Unlinked
    /\ tgPc = "done"
    /\ isClearCommand(tgUpdate.text)
    /\ ChatRows(telegram_messages, tgUpdate.chat) # <<>>
    /\ Len(tgSends) = 1
    /\ tgSends[1].text = NotLinkedReply

\* C9 as stated: after a /clear command was handled for a chat identifier,
\* a chat-history fetch for that chat identifier returns no message.
C9_Original ==
    (tgPc = "done" /\ tgUpdate.kind = "message" /\ isClearCommand(tgUpdate.text)) =>
        getTelegramChatHistory(tgUpdate.chat, HistoryLimit) = <<>>

\* C9 amended: after a /clear command of a linked sender whose delete
\* succeeded, a subsequent chat-history fetch for that chat identifier
\* returns no message, whatever was handled for that chat before.
C9_ClearedHistoryEmpty ==
    (LinkedClear /\ tgReply = ClearedReply) =>
        getTelegramChatHistory(tgUpdate.chat, HistoryLimit) = <<>>

\* C9 witness: a cleared chat that held a user message and a bot message
C9_Witness ==
    /\ LinkedClear
    /\ tgReply = ClearedReply
    /\ tgPc = "done"
    /\ Len(ChatRows(tgDbBefore, tgUpdate.chat)) >= 2
    /\ \E i \in 1..Len(tgDbBefore) :
          tgDbBefore[i].telegram_chat_id = tgUpdate.chat /\ tgDbBefore[i].is_bot

\* C10 as stated: a /clear message (trimmed, lower-cased) of a linked
\* sender makes no AI call and no context fetch, stores nothing, deletes
\* all messages of its chat identifier and no other, and the confirmation
\* is then sent as the reply.
C10_Original ==
    (LinkedClear /\ tgPc = "done") =>
        /\ TraceWithin({"lookup", "delete", "send", "retry"})
        /\ telegram_messages = deleteChat(tgDbBefore, tgUpdate.chat)
        /\ tgReply = ClearedReply
        /\ tgSends[1].text = ClearedReply

\* C10 amended: a /clear message of a linked sender makes no AI call, no
\* context or history fetch and stores nothing.  When the delete succeeds,
\* all messages of its chat identifier and no other are deleted and the
\* confirmation is then sent as the reply; when the delete fails, nothing
\* is deleted and the fixed something-went-wrong reply is sent instead.
C10_ClearShortCircuit ==
    LinkedClear =>
        /\ TraceWithin({"lookup", "delete", "send", "retry"})
        /\ ~Did("delete") => telegram_messages = tgDbBefore /\ tgSends = <<>>
        /\ Did("delete") =>
              /\ tgReply \in {ClearedReply, WentWrongReply}
              /\ tgReply = ClearedReply =>
                    telegram_messages = deleteChat(tgDbBefore, tgUpdate.chat)
              /\ tgReply = WentWrongReply => telegram_messages = tgDbBefore
              /\ tgSends # <<>> => tgSends[1].text = tgReply
        /\ tgPc = "done" => SubSeq(tgTrace, 1, 3) = <<"lookup", "delete", "send">>

\* C10 witness: ' /CLEAR ' cleared a chat while another chat keeps its rows
C10_Witness ==
    /\ LinkedClear
    /\ tgPc = "done"
    /\ tgUpdate.text.toks # <<"/clear">>
    /\ tgReply = ClearedReply
    /\ ChatRows(tgDbBefore, tgUpdate.chat) # <<>>
    /\ telegram_messages # <<>>
    /\ tgSends[1].text = ClearedReply

\* number of times the request in flight made the call e
Count(e) == Cardinality({i \in 1..Len(tgTrace) : tgTrace[i] = e})
\* position of the first call e in the trace, 0 if it was not made
FirstAt(e) == IF Did(e) THEN CHOOSE i \in 1..Len(tgTrace) :
                                 tgTrace[i] = e /\ \A j \in 1..(i - 1) : tgTrace[j] # e
              ELSE 0

\* C12: when the first sendMessage attempt fails, sendTelegramMessage
\* makes exactly one further attempt, carrying the fixed fallback message
\* to the same chat; whether or not that retry succeeds there is no third
\* attempt and no error reaches the caller (processUpdate's catch does not
\* run because of a send, so sendTelegramMessage is called once a request).
C12_SingleRetry ==
    /\ Len(tgSends) <= 2
    /\ Count("send") <= 1 /\ Count("retry") <= 1
    /\ Len(tgSends) >= 1 =>
          /\ tgSends[1].attempt = "first"
          /\ tgSends[1].text = truncate(tgReply)
    /\ Len(tgSends) = 2 =>
          /\ ~tgSends[1].ok
          /\ tgSends[2].attempt = "retry"
          /\ tgSends[2].text = FallbackReply
          /\ tgSends[2].chat_id = tgSends[1].chat_id
    /\ (tgPc = "done" /\ Len(tgSends) >= 1) =>
          /\ tgStatus = 200
          /\ Len(tgSends) = (IF tgSends[1].ok THEN 1 ELSE 2)

\* C12 witness: the answer of the AI could not be sent and the fallback
\* could not be sent either; the request is finished after two attempts
C12_Witness ==
    /\ tgPc = "done"
    /\ tgAi # NoText
    /\ tgReply = tgAi
    /\ Len(tgSends) = 2
    /\ ~tgSends[1].ok
    /\ ~tgSends[2].ok

CtxFields == {"journals", "activities", "user"}

C14_AiAfterFetches ==
    /\ (tgPc = "ai" \/ Did("ai")) => \A f \in CtxFields : tgCtx[f] # "none"
    /\ tgPc \in {"journals", "activities", "usercontext"} => ~Did("ai")
    /\ Did("ai") =>
          /\ Count("ai") = 1
          /\ \A e \in {"ctx_journals", "ctx_activities", "ctx_user"} :
                Did(e) /\ FirstAt(e) < FirstAt("ai")

\* C14 witness: the AI has answered after lookup, insert, history fetch and
\* the three context fetches
C14_Witness ==
    /\ tgPc = "storeBot"
    /\ tgTrace = <<"lookup", "insert_user", "history", "ctx_journals",
                   "ctx_activities", "ctx_user", "ai">>
    /\ tgCtx.user = "data"

\* C11: for every text passed to sendTelegramMessage, a text longer than
\* 4000 characters is transmitted in the first attempt as its first 3997
\* characters followed by "..." (4000 characters in all), a text of at
\* most 4000 characters is transmitted unchanged, and so no transmitted
\* text is longer than 4000 characters.
C11_Truncation ==
    tnPc = "sent" =>
        /\ length(tnText) > 4000 =>
              /\ tnSent.toks = tnText.toks
              /\ tnSent.len = 3997
              /\ tnSent.ellipsis
              /\ length(tnSent) = 4000
        /\ length(tnText) <= 4000 => tnSent = tnText
        /\ length(tnSent) <= 4000

\* C11 witness: a text of 4001 characters was cut to 4000
C11_Witness ==
    /\ tnPc = "sent"
    /\ length(tnText) = 4001
    /\ tnSent.ellipsis
    /\ length(tnSent) = 4000

\* C15: GET /journal answers 401 with no entries when there is no session;
\* a 200 response holds only entries owned by the session user, holds
\* every entry of that user in the table, those still is_processing
\* included, and lists them by creation time, newest first.
C15_GetOwnEntries ==
    getResp # NoGet =>
        /\ getResp.status \in {200, 401, 500}
        /\ getResp.status = 401 <=> getResp.session = "undefined"
        /\ getResp.status # 200 => getResp.rows = <<>>
        /\ getResp.status = 200 =>
              /\ \A i \in DOMAIN getResp.rows :
                    getResp.rows[i].user_id = getResp.session
              /\ \A id \in DOMAIN journals :
                    journals[id].user_id = getResp.session =>
                        \E i \in DOMAIN getResp.rows : getResp.rows[i] = journals[id]
              /\ \A i, j \in DOMAIN getResp.rows :
                    i < j => getResp.rows[i].created_at > getResp.rows[j].created_at

\* C15 witness: the user reads their two entries, newest first, while the
\* POST that created the newer one is still waiting for the dispatch; the
\* newer entry is still processing
C15_Witness ==
    /\ getResp.status = 200
    /\ Len(getResp.rows) = 2
    /\ getResp.rows[1].id = 2
    /\ getResp.rows[1].is_processing
    /\ pc = "await"

\* C16: every journal entry created by POST /journal is owned by the
\* requesting authenticated user: no row of the table has a missing owner
\* identifier, the row a request inserted carries the session user of that
\* request, and a request without a session inserts nothing.
C16_Claim ==
    /\ \A id \in DOMAIN journals : journals[id].user_id \in Users
    /\ insertResult = "ok" => (session \in Users /\ journal.user_id = session)

FailedOutcomes == {"non200", "neterr", "timeout"}

\* C17: an entry whose dispatch failed stays is_processing = true unless a
\* webhook callback arrives: the only step that clears the flag of a row
\* is the webhook callback for that row, a failed dispatch is never
\* changed or sent again, and no step of the creation path touches the
\* row after its insert.
C17_StaysProcessing ==
    [][/\ \A id \in DOMAIN journals :
             /\ id \in DOMAIN journals'
             /\ (journals[id].is_processing /\ ~journals'[id].is_processing) => Webhook(id)
             /\ journals'[id] # journals[id] => Webhook(id)
       /\ \A i \in DOMAIN flaskLog :
             flaskLog[i].outcome \in FailedOutcomes =>
                 /\ i \in DOMAIN flaskLog'
                 /\ flaskLog'[i] = flaskLog[i]
                 /\ \A j \in DOMAIN flaskLog' :
                       flaskLog'[j].journal_id = flaskLog[i].journal_id => j = i
      ]_vars

\* C17 witness: the dispatch of the first entry failed at the network, a
\* second request has been answered since, and the first entry is still
\* processing
C17_Witness ==
    /\ reqNo = 2
    /\ pc = "done"
    /\ Len(flaskLog) >= 1
    /\ flaskLog[1].outcome = "neterr"
    /\ flaskLog[1].journal_id = 1
    /\ journals[1].is_processing

\* C18 as stated: after the stream has ended, the assistant message the
\* chat client holds is the concatenation, in order, of the texts of all
\* data: events the server sent, however the body was cut into reads.
C18_Claim == stPc = "ended" => (stShown = stEvents /\ assistantMessage = stEvents)

\* C19 as stated: with voice responses enabled and the AWS Polly provider,
\* when the Polly path of a speakText call failed at any step (client
\* call, stream conversion, start of playback), the text of that call is
\* spoken by the Web Speech engine (where the browser has one).
C19_Claim ==
    (spPc = "done" /\ spFailedAt # "none" /\ speechSynthesis) =>
        /\ spoken # <<>>
        /\ spoken[Len(spoken)] = [engine |-> "webspeech", text |-> spText]

\* C20 as stated: the outbound enrichment call always settles in exactly
\* one of the four outcomes (200, non-200 status, network error, timeout),
\* a timeout aborts the request in flight, and so every POST /journal
\* request that reached the dispatch step eventually returns its response.
C20_Claim ==
    /\ [](dsPromise # "pending" => dsOutcome \in DispatchOutcomes)
    /\ [](dsOutcome = "timeout" => dsDestroyed)
    /\ (dsPc = "await" ~> dsPromise # "pending")
    /\ (dsPc = "await" ~> dsPc = "returned")

\* rows the request in flight has added to telegram_messages
NewRows == SubSeq(telegram_messages, Len(tgDbBefore) + 1, Len(telegram_messages))
\* the request in flight is a message of a linked sender that is not /clear
LinkedChat == tgUser = "row" /\ ~isClearCommand(tgUpdate.text)
\* the AI call of the request in flight threw
AiThrew == Did("ai") /\ tgAi = NoText

\* what C21 and its amended form have in common: the order of the calls,
\* the bot row and the error path
C21_Order ==
    LinkedChat =>
        /\ Len(tgDbBefore) <= Len(telegram_messages)
        /\ SubSeq(telegram_messages, 1, Len(tgDbBefore)) = tgDbBefore
        /\ Did("history") => (Did("insert_user") /\ FirstAt("insert_user") < FirstAt("history"))
        /\ Did("ai") => (Did("insert_user") /\ FirstAt("insert_user") < FirstAt("ai"))
        /\ Did("insert_bot") => (Did("ai") /\ FirstAt("ai") < FirstAt("insert_bot"))
        /\ \A i \in DOMAIN NewRows :
              IF NewRows[i].is_bot
              THEN /\ Did("insert_bot") /\ tgAi # NoText
                   /\ i = Len(NewRows)
                   /\ NewRows[i] = messageRow(tgUpdate, tgAi, TRUE)
              ELSE /\ i = 1
                   /\ NewRows[i] = messageRow(tgUpdate, tgUpdate.text, FALSE)
        /\ (Did("insert_bot") /\ Len(tgSends) >= 1) => tgSends[1].text = truncate(tgAi)
        /\ AiThrew =>
              /\ ~Did("insert_bot")
              /\ \A i \in DOMAIN NewRows : ~NewRows[i].is_bot
              /\ tgReply = WentWrongReply
              /\ Len(tgSends) >= 1 => tgSends[1].text = WentWrongReply
              /\ tgPc = "done" => Len(tgSends) >= 1

C22_AtMostTwoSends ==
    /\ Len(tgSends) <= 2
    /\ \A i \in DOMAIN tgSends : tgSends[i].chat_id = tgUpdate.chat
    /\ Len(tgSends) >= 1 =>
          /\ tgSends[1].attempt = "first"
          /\ tgSends[1].text \in {NotLinkedReply, ClearedReply, WentWrongReply, truncate(tgAi)}
    /\ Len(tgSends) = 2 => (tgSends[2].attempt = "retry" /\ tgSends[2].text = FallbackReply)
    /\ (tgPc = "done" /\ Did("lookup")) => Len(tgSends) >= 1
    /\ (tgPc # "idle" /\ ~(tgUpdate.kind = "message" /\ hasMessageText(tgUpdate))) =>
          /\ tgSends = <<>>
          /\ tgTrace = <<>>
          /\ telegram_messages = tgDbBefore

\* C22 witness: /clear of a linked sender whose delete failed; the fixed
\* reply and the fallback were both sent, and nothing more
C22_Witness ==
    /\ tgPc = "done"
    /\ LinkedClear
    /\ Did("delete")
    /\ tgReply = WentWrongReply
    /\ Len(tgSends) = 2
    /\ tgSends[1].text = WentWrongReply
    /\ tgSends[2].text = FallbackReply

\* C23 as stated: while and after a response streams, the message list is
\* the list as it was at submit, followed by the just-sent user message,
\* followed by exactly one assistant message holding the text received so
\* far - under every interleaving with the adoption of the chat id and the
\* reloads it starts.
C23_Claim ==
    (hsPc \in {"reading", "done"} /\ ~hsFailed) =>
        messages = hsBefore \o <<userMessage, msg("assistant", hsAssistant)>>

\* C24: deleteChat with no current chat changes nothing; with a current
\* chat, a successful DELETE removes exactly that chat from the chat list
\* and clears the message list and the current chat id, a failed DELETE
\* leaves all three as they were; both ways deleteChat ends with isDeleting
\* false and the confirmation dialog closed.
chatView == <<chats, messages, currentChatId>>
occurs(cs, c) == Cardinality({i \in 1..Len(cs) : cs[i] = c})
C24_DeleteFrame ==
    [][/\ (delPc = "idle" /\ delPc' # "idle" /\ currentChatId = "null") =>
            /\ delPc' = "returned"
            /\ UNCHANGED <<chatView, isDeleting, isDeleteDialogOpen>>
       /\ (delPc = "idle" /\ delPc' # "idle" /\ currentChatId # "null") =>
            /\ delPc' = "await"
            /\ UNCHANGED chatView
       /\ (delPc = "await" /\ delPc' # "await") =>
            /\ delPc' \in {"deleted", "failed"}
            /\ delPc' = "deleted" =>
                /\ chats' = SelectSeq(chats, LAMBDA c : c # currentChatId)
                /\ \A c \in ChatKeys :
                       occurs(chats', c) = (IF c = currentChatId THEN 0 ELSE occurs(chats, c))
                /\ messages' = <<>>
                /\ currentChatId' = "null"
            /\ delPc' = "failed" => UNCHANGED chatView
            /\ isDeleting' = FALSE
            /\ isDeleteDialogOpen' = FALSE
       /\ delPc \in {"returned", "deleted", "failed"} =>
            UNCHANGED <<chatView, isDeleting, isDeleteDialogOpen>>]_vars
\* a chat with messages, listed among others, has been deleted
C24_Witness ==
    /\ delPc = "deleted"
    /\ Len(delChats) = 2
    /\ delChats[2] = delChatId
    /\ chats = <<delChats[1]>>
    /\ delMessages # <<>>
    /\ messages = <<>>
    /\ currentChatId = "null"
    /\ ~isDeleting
    /\ ~isDeleteDialogOpen

====
